---- MODULE Spec2Model ----
(***************************************************************************)
(* A model of the feed-forward layer of src/src/feedforward.rs:            *)
(* FeedforwardLayer { inputs, coeffs, biases, activation }, its four       *)
(* constructors, its bulk setters, compute, and the two training rules.    *)
(*                                                                         *)
(* Scalars (the type parameter F: Float) are modelled as exact rationals   *)
(* <<numerator, denominator>> in lowest terms with a positive denominator. *)
(* Vectors are sequences; the code's 0-based index k is position k+1.      *)
(* An out-of-range index (a Rust panic) makes the call fail: the result    *)
(* carries ok = FALSE and the state reached so far.                        *)
(***************************************************************************)
EXTENDS Integers, Sequences, FiniteSets, TLC

\* inputs, coeffs, biases, activation: the fields of the layer.
\* last:  the last call made: its arguments, the layer on entry, its result.
\* calls: the number of calls made on the layer since its construction.
\* hist:  the examples the test perceptron_rule has trained on, in order.
VARIABLES inputs, coeffs, biases, activation, last, calls, hist

vars == <<inputs, coeffs, biases, activation, last, calls, hist>>

(* ------------------------------ bounds -------------------------------- *)

MaxIn == 2

MaxOut == 2

MaxCalls == 1

MaxAcc == 1

(* ------------------------- the scalar type F -------------------------- *)

Abs(n) == IF n < 0 THEN -n ELSE n

RECURSIVE Gcd(_, _)
Gcd(a, b) == IF b = 0 THEN a ELSE Gcd(b, a % b)

\* The rational n/d in lowest terms, d > 0.
Q(n, d) ==
    LET g == Gcd(Abs(n), Abs(d))
        s == IF d < 0 THEN -1 ELSE 1
    IN  <<(s * n) \div g, (s * d) \div g>>

Zero == Q(0, 1)

One == Q(1, 1)

Half == Q(1, 2)

\* a + b over the least common denominator.
Add(a, b) ==
    LET g == Gcd(a[2], b[2])
    IN  Q(a[1] * (b[2] \div g) + b[1] * (a[2] \div g), (a[2] \div g) * b[2])

Neg(a) == <<-a[1], a[2]>>

Sub(a, b) == Add(a, Neg(b))

\* a * b, cancelling across before multiplying.
Mul(a, b) ==
    LET g == Gcd(Abs(a[1]), b[2])
        h == Gcd(Abs(b[1]), a[2])
    IN  Q((a[1] \div g) * (b[1] \div h), (a[2] \div h) * (b[2] \div g))

Positive(a) == a[1] > 0

(* ----------------------- activation functions ------------------------- *)

\* A scalar function, named; ActivationFunction holds two of them.
ApplyFn(f, x) ==
    CASE f = "identity" -> x
      [] f = "one"      -> One
      [] f = "step"     -> IF Positive(x) THEN One ELSE Zero
      [] f = "stepz"    -> IF Positive(x) \/ x = Zero THEN One ELSE Zero
      [] f = "negate"   -> Neg(x)

identity == [value |-> "identity", derivative |-> "one"]

step == [value |-> "step", derivative |-> "one"]

stepz == [value |-> "stepz", derivative |-> "one"]

\* A pair whose derivative is not constant: any two closures make a layer.
skewed == [value |-> "negate", derivative |-> "identity"]

Activations == {identity, step, skewed}

(* ------------------------------ vectors ------------------------------- *)

Min(a, b) == IF a < b THEN a ELSE b

InRange(v, k) == k >= 0 /\ k < Len(v)

At(v, k) == v[k + 1]

\* slice::get(k).map(|v| *v).unwrap_or(zero())
GetOrZero(v, k) == IF InRange(v, k) THEN At(v, k) ELSE Zero

Put(v, k, x) == [v EXCEPT ![k + 1] = x]

\* A faulty variant: the matrix is indexed column-major.
IdxTransposed(ins, i, j) == i * ins + j

\* The position of the weight from input i to output j.
Idx(ins, i, j) == j * ins + i

(* --------------------------- compute ---------------------------------- *)

\* A faulty variant: each product overwrites the sum instead of being added to it.
RECURSIVE SumRowOverwritten(_, _, _, _, _, _, _)
SumRowOverwritten(cf, ins, inp, j, i, m, acc) ==
    IF i >= m THEN [ok |-> TRUE, val |-> acc]
    ELSE IF ~InRange(cf, j * ins + i) THEN [ok |-> FALSE, val |-> acc]
    ELSE SumRowOverwritten(cf, ins, inp, j, i + 1, m,
                           Mul(At(cf, j * ins + i), At(inp, i)))

\* for i in i..m { acc = acc + coeffs[j*inputs + i] * input[i] }
RECURSIVE SumRow(_, _, _, _, _, _, _)
SumRow(cf, ins, inp, j, i, m, acc) ==
    IF i >= m THEN [ok |-> TRUE, val |-> acc]
    ELSE IF ~InRange(cf, Idx(ins, i, j)) THEN [ok |-> FALSE, val |-> acc]
    ELSE SumRow(cf, ins, inp, j, i + 1, m,
                Add(acc, Mul(At(cf, Idx(ins, i, j)), At(inp, i))))

\* The number of input components a call reads.
Used(ins, inp) == Min(ins, Len(inp))

\* out = biases.clone(); for j in 0..biases.len() { for i in 0..min(..) {..} }
RawSums(cf, bs, ins, inp) ==
    LET row == [j \in 1..Len(bs) |->
                   SumRow(cf, ins, inp, j - 1, 0, Used(ins, inp), bs[j])]
    IN  [ok  |-> \A j \in 1..Len(bs) : row[j].ok,
         val |-> [j \in 1..Len(bs) |-> row[j].val]]

\* for o in &mut out { *o = (activation.value)(*o) }
MapFn(f, v) == [j \in 1..Len(v) |-> ApplyFn(f, v[j])]

\* A faulty variant: the outputs are walked together with the input, stopping at
\* the shorter of the two.
ComputeZipped(cf, bs, ins, act, inp) ==
    LET raw == RawSums(cf, bs, ins, inp)
    IN  [ok  |-> raw.ok,
         val |-> MapFn(act.value,
                       SubSeq(raw.val, 1, Min(Len(raw.val), Len(inp))))]

Compute(cf, bs, ins, act, inp) ==
    LET raw == RawSums(cf, bs, ins, inp)
    IN  [ok |-> raw.ok, val |-> MapFn(act.value, raw.val)]

output_size(bs) == Len(bs)

(* ------------------- delta-rule (perceptron) training ------------------ *)

\* A faulty variant: the correction is added instead of subtracted.
DeltaWeightAdded(w, rate, diff, x) == Add(w, Mul(Mul(rate, diff), x))

\* coeffs[i + j*inputs] - rule.rate * diff * input[i]
DeltaWeight(w, rate, diff, x) == Sub(w, Mul(Mul(rate, diff), x))

\* A faulty variant: the bias moves by the rate, whatever the error.
DeltaBiasNoDiff(b, rate, diff) == Sub(b, rate)

\* biases[j] - rule.rate * diff
DeltaBias(b, rate, diff) == Sub(b, Mul(rate, diff))

\* for i in i..m { coeffs[i + j*inputs] = ... }
RECURSIVE DeltaRow(_, _, _, _, _, _, _, _)
DeltaRow(cf, ins, inp, j, i, m, rate, diff) ==
    IF i >= m THEN [ok |-> TRUE, coeffs |-> cf]
    ELSE IF ~InRange(cf, Idx(ins, i, j)) THEN [ok |-> FALSE, coeffs |-> cf]
    ELSE DeltaRow(Put(cf, Idx(ins, i, j),
                      DeltaWeight(At(cf, Idx(ins, i, j)), rate, diff, At(inp, i))),
                  ins, inp, j, i + 1, m, rate, diff)

\* for j in j..biases.len() { diff; weights of row j; biases[j] }
RECURSIVE DeltaLoop(_, _, _, _, _, _, _, _)
DeltaLoop(cf, bs, ins, inp, tgt, out, rate, j) ==
    IF j >= Len(bs) THEN [ok |-> TRUE, coeffs |-> cf, biases |-> bs]
    ELSE IF ~InRange(out, j) THEN [ok |-> FALSE, coeffs |-> cf, biases |-> bs]
    ELSE LET diff == Sub(At(out, j), GetOrZero(tgt, j))
             row  == DeltaRow(cf, ins, inp, j, 0, Used(ins, inp), rate, diff)
         IN  IF ~row.ok THEN [ok |-> FALSE, coeffs |-> row.coeffs, biases |-> bs]
             ELSE DeltaLoop(row.coeffs,
                            Put(bs, j, DeltaBias(At(bs, j), rate, diff)),
                            ins, inp, tgt, out, rate, j + 1)

\* A faulty variant: the error of each output is scaled by the activation's
\* derivative at its output.
PerceptronTrainScaled(cf, bs, ins, act, rate, inp, tgt) ==
    LET out == Compute(cf, bs, ins, act, inp)
        tg  == [j \in 1..Len(bs) |-> GetOrZero(tgt, j - 1)]
        sc  == [j \in 1..Len(bs) |->
                   Add(tg[j], Mul(ApplyFn(act.derivative, out.val[j]),
                                  Sub(out.val[j], tg[j])))]
    IN  IF ~out.ok THEN [ok |-> FALSE, coeffs |-> cf, biases |-> bs]
        ELSE DeltaLoop(cf, bs, ins, inp, tg, sc, rate, 0)

PerceptronTrain(cf, bs, ins, act, rate, inp, tgt) ==
    LET out == Compute(cf, bs, ins, act, inp)
    IN  IF ~out.ok THEN [ok |-> FALSE, coeffs |-> cf, biases |-> bs]
        ELSE DeltaLoop(cf, bs, ins, inp, tgt, out.val, rate, 0)

(* --------------- gradient-descent / backprop training ------------------ *)

\* A faulty variant: the derivative is left out of the weight's correction.
GradWeightNoDelta(w, rate, x, delta, err) == Sub(w, Mul(Mul(rate, x), err))

\* coeffs[..] - rule.rate * input.get(i) * deltas[j] * (out[j] - target.get(j))
GradWeight(w, rate, x, delta, err) == Sub(w, Mul(Mul(Mul(rate, x), delta), err))

\* biases[j] - rule.rate * deltas[j] * (out[j] - target.get(j))
GradBias(b, rate, delta, err) == Sub(b, Mul(Mul(rate, delta), err))

\* A faulty variant: the weight is updated first and read for returned[i] after.
RECURSIVE BackRowStale(_, _, _, _, _, _, _, _, _, _)
BackRowStale(cf, ret, ins, inp, j, i, m, rate, delta, err) ==
    IF i >= m THEN [ok |-> TRUE, coeffs |-> cf, returned |-> ret]
    ELSE IF ~InRange(cf, Idx(ins, i, j)) \/ ~InRange(ret, i)
         THEN [ok |-> FALSE, coeffs |-> cf, returned |-> ret]
    ELSE LET cf2  == Put(cf, Idx(ins, i, j),
                         GradWeight(At(cf, Idx(ins, i, j)), rate,
                                    GetOrZero(inp, i), delta, err))
             ret2 == Put(ret, i, Sub(At(ret, i), Mul(At(cf2, Idx(ins, i, j)), delta)))
         IN  BackRowStale(cf2, ret2, ins, inp, j, i + 1, m, rate, delta, err)

\* for i in i..m { returned[i] -= coeffs[..]*deltas[j]; coeffs[..] = ... }
\* The weight is read for returned[i] first, and updated after.
RECURSIVE BackRow(_, _, _, _, _, _, _, _, _, _)
BackRow(cf, ret, ins, inp, j, i, m, rate, delta, err) ==
    IF i >= m THEN [ok |-> TRUE, coeffs |-> cf, returned |-> ret]
    ELSE IF ~InRange(cf, Idx(ins, i, j)) \/ ~InRange(ret, i)
         THEN [ok |-> FALSE, coeffs |-> cf, returned |-> ret]
    ELSE LET ret2 == Put(ret, i, Sub(At(ret, i), Mul(At(cf, Idx(ins, i, j)), delta)))
             cf2  == Put(cf, Idx(ins, i, j),
                         GradWeight(At(cf, Idx(ins, i, j)), rate,
                                    GetOrZero(inp, i), delta, err))
         IN  BackRow(cf2, ret2, ins, inp, j, i + 1, m, rate, delta, err)

RECURSIVE BackLoop(_, _, _, _, _, _, _, _, _, _)
BackLoop(cf, bs, ret, ins, inp, tgt, out, deltas, rate, j) ==
    IF j >= Len(bs)
    THEN [ok |-> TRUE, coeffs |-> cf, biases |-> bs, returned |-> ret]
    ELSE IF ~InRange(deltas, j) \/ ~InRange(out, j)
         THEN [ok |-> FALSE, coeffs |-> cf, biases |-> bs, returned |-> ret]
    ELSE LET err == Sub(At(out, j), GetOrZero(tgt, j))
             row == BackRow(cf, ret, ins, inp, j, 0, Used(ins, inp), rate,
                            At(deltas, j), err)
         IN  IF ~row.ok
             THEN [ok |-> FALSE, coeffs |-> row.coeffs, biases |-> bs,
                   returned |-> row.returned]
             ELSE BackLoop(row.coeffs,
                           Put(bs, j, GradBias(At(bs, j), rate, At(deltas, j), err)),
                           row.returned, ins, inp, tgt, out, deltas, rate, j + 1)

BackpropTrain(cf, bs, ins, act, rate, inp, tgt) ==
    LET raw == RawSums(cf, bs, ins, inp)
    IN  IF ~raw.ok
        THEN [ok |-> FALSE, coeffs |-> cf, biases |-> bs, returned |-> << >>]
        ELSE BackLoop(cf, bs, inp, ins, inp, tgt,
                      MapFn(act.value, raw.val),
                      MapFn(act.derivative, raw.val), rate, 0)

\* SupervisedTrain<GradientDescent>: backprop_train with the result dropped.
GradientTrain(cf, bs, ins, act, rate, inp, tgt) ==
    LET r == BackpropTrain(cf, bs, ins, act, rate, inp, tgt)
    IN  [ok |-> r.ok, coeffs |-> r.coeffs, biases |-> r.biases]

(* ---------------------------- generators ------------------------------ *)

\* A generator is a closure with a state: its kind and the number of times
\* it has been invoked. Value(kind, n) is what its n-th invocation returns.
GenValue(kind, n) ==
    CASE kind = "half"   -> Half
      [] kind = "random" -> Q(1 + ((13 * n) % 12), 13)

GenKinds == {"half", "random"}

\* The generators handed to new_from: || 0.5, and the tests' generator
\* after any number of earlier invocations.
Generators ==
    {[kind |-> "half", acc |-> 0]}
        \cup {[kind |-> "random", acc |-> a] : a \in 0..MaxAcc}

Invoke(g) == [val |-> GenValue(g.kind, g.acc + 1),
              gen |-> [g EXCEPT !.acc = g.acc + 1]]

\* (0..n).map(|_| generator()).collect()
RECURSIVE Generate(_, _, _)
Generate(g, n, sofar) ==
    IF n <= 0 THEN [vals |-> sofar, gen |-> g]
    ELSE LET r == Invoke(g)
         IN  Generate(r.gen, n - 1, Append(sofar, r.val))

(* --------------------------- constructors ----------------------------- *)

\* vec![zero(); n]
Zeros(n) == [k \in 1..n |-> Zero]

New(ins, outs, act) ==
    [inputs |-> ins, coeffs |-> Zeros(ins * outs), biases |-> Zeros(outs),
     activation |-> act]

\* A faulty variant: the biases are generated first, then the weights.
NewFromBiasesFirst(ins, outs, act, g) ==
    LET b == Generate(g, outs, << >>)
        c == Generate(b.gen, ins * outs, << >>)
    IN  [inputs |-> ins, coeffs |-> c.vals, biases |-> b.vals,
         activation |-> act, gen |-> c.gen]

\* One generator: the weights are generated first, then the biases.
NewFrom(ins, outs, act, g) ==
    LET c == Generate(g, ins * outs, << >>)
        b == Generate(c.gen, outs, << >>)
    IN  [inputs |-> ins, coeffs |-> c.vals, biases |-> b.vals,
         activation |-> act, gen |-> b.gen]

NewFromGenerators(ins, outs, act, wg, bg) ==
    [inputs |-> ins, coeffs |-> Generate(wg, ins * outs, << >>).vals,
     biases |-> Generate(bg, outs, << >>).vals, activation |-> act]

\* The outputs argument is not used.
NewFromValues(ins, outs, act, cfs, bs) ==
    [inputs |-> ins, coeffs |-> cfs, biases |-> bs, activation |-> act]

(* ------------------------ the callers' arguments ---------------------- *)

\* Component k (from 0) of a vector of a given pattern.
Pattern(p, k) ==
    CASE p = "zeros" -> Zero
      [] p = "ones"  -> One
      [] p = "alt"   -> IF k % 2 = 0 THEN One ELSE Q(-1, 1)
      [] p = "ramp"  -> Q(k + 1, 2)
      [] p = "onezero" -> IF k % 2 = 0 THEN One ELSE Zero

Prefix(p, n) == [k \in 1..n |-> Pattern(p, k - 1)]

\* Inputs: none, one component, and as many as the widest layer takes.
InputVecs == {Prefix("alt", n) : n \in {0, 1, MaxIn}}

\* Targets: none, one component, and as many as the widest layer gives.
TargetVecs == {Prefix("onezero", n) : n \in {0, 1, MaxOut}}

\* Weights for a layer that expects n: one short, as expected, one more.
WeightVecs(n) == {Prefix("ramp", k) : k \in {n - 1, n, n + 1} \ {-1}}

BiasVecs == {Prefix("ones", n) : n \in {0, 1, MaxOut}}

Rates == {Half}

(* --------------------------- the state machine ------------------------ *)

NoGen == [kind |-> "none", acc |-> 0]

\* The record of a call: its arguments, the layer on entry, what it returned.
Blank(op) ==
    [op |-> op, ok |-> TRUE, input |-> << >>, target |-> << >>, rate |-> Zero,
     result |-> << >>, inputs0 |-> 0, coeffs0 |-> << >>, biases0 |-> << >>,
     outputs |-> 0, gen0 |-> NoGen, bgen0 |-> NoGen, gen1 |-> NoGen]

Call(op) ==
    [Blank(op) EXCEPT !.inputs0 = inputs, !.coeffs0 = coeffs, !.biases0 = biases]

\* The state after a constructor returned layer l.
Constructed(l, rec) ==
    /\ inputs = l.inputs
    /\ coeffs = l.coeffs
    /\ biases = l.biases
    /\ activation = l.activation
    /\ last = rec
    /\ calls = 0
    /\ hist = << >>

InitNew ==
    \E ins \in 0..MaxIn, outs \in 0..MaxOut, act \in Activations :
        Constructed(New(ins, outs, act),
                    [Blank("new") EXCEPT !.inputs0 = ins, !.outputs = outs])

InitNewFrom ==
    \E ins \in 0..MaxIn, outs \in 0..MaxOut, act \in Activations,
       g \in Generators :
        LET l == NewFrom(ins, outs, act, g)
        IN  Constructed(l, [Blank("new_from") EXCEPT !.inputs0 = ins,
                               !.outputs = outs, !.gen0 = g, !.gen1 = l.gen])

InitNewFromGenerators ==
    \E ins \in 0..MaxIn, outs \in 0..MaxOut, act \in Activations,
       wk \in GenKinds : \E bk \in GenKinds \ {wk} :
        LET wg == [kind |-> wk, acc |-> 0]
            bg == [kind |-> bk, acc |-> 0]
        IN  Constructed(NewFromGenerators(ins, outs, act, wg, bg),
                        [Blank("new_from_generators") EXCEPT !.inputs0 = ins,
                               !.outputs = outs, !.gen0 = wg, !.bgen0 = bg])

InitNewFromValues ==
    \E ins \in 0..MaxIn, outs \in 0..MaxOut, act \in Activations,
       bs \in BiasVecs : \E cfs \in WeightVecs(ins * Len(bs)) :
        Constructed(NewFromValues(ins, outs, act, cfs, bs),
                    [Blank("new_from_values") EXCEPT !.inputs0 = ins])

Init == InitNew \/ InitNewFrom \/ InitNewFromGenerators \/ InitNewFromValues

\* A panic ends the program; every call counts towards MaxCalls.
Step == last.ok /\ calls < MaxCalls /\ calls' = calls + 1 /\ UNCHANGED hist

DoSetCoefficients ==
    \E cfs \in WeightVecs(inputs * Len(biases)) :
        /\ Step
        /\ coeffs' = cfs
        /\ UNCHANGED <<inputs, biases, activation>>
        /\ last' = Call("set_coefficients")

DoSetBiases ==
    \E bs \in BiasVecs :
        /\ Step
        /\ biases' = bs
        /\ UNCHANGED <<inputs, coeffs, activation>>
        /\ last' = Call("set_biases")

Computing(inp) ==
    \E r \in {Compute(coeffs, biases, inputs, activation, inp)} :
        /\ last.ok
        /\ UNCHANGED <<inputs, coeffs, biases, activation>>
        /\ last' = [Call("compute") EXCEPT !.ok = r.ok, !.input = inp,
                                           !.result = r.val]

PerceptronTraining(rate, inp, tgt) ==
    \E r \in {PerceptronTrain(coeffs, biases, inputs, activation, rate, inp, tgt)} :
        /\ last.ok
        /\ coeffs' = r.coeffs
        /\ biases' = r.biases
        /\ UNCHANGED <<inputs, activation>>
        /\ last' = [Call("perceptron_train") EXCEPT !.ok = r.ok, !.input = inp,
                                           !.target = tgt, !.rate = rate]

BackpropTraining(rate, inp, tgt) ==
    \E r \in {BackpropTrain(coeffs, biases, inputs, activation, rate, inp, tgt)} :
        /\ last.ok
        /\ coeffs' = r.coeffs
        /\ biases' = r.biases
        /\ UNCHANGED <<inputs, activation>>
        /\ last' = [Call("backprop_train") EXCEPT !.ok = r.ok, !.input = inp,
                                           !.target = tgt, !.rate = rate,
                                           !.result = r.returned]

GradientTraining(rate, inp, tgt) ==
    \E r \in {GradientTrain(coeffs, biases, inputs, activation, rate, inp, tgt)} :
        /\ last.ok
        /\ coeffs' = r.coeffs
        /\ biases' = r.biases
        /\ UNCHANGED <<inputs, activation>>
        /\ last' = [Call("gradient_train") EXCEPT !.ok = r.ok, !.input = inp,
                                           !.target = tgt, !.rate = rate]

DoCompute == \E inp \in InputVecs : Step /\ Computing(inp)

DoPerceptronTrain ==
    \E rate \in Rates, inp \in InputVecs, tgt \in TargetVecs :
        Step /\ PerceptronTraining(rate, inp, tgt)

DoBackpropTrain ==
    \E rate \in Rates, inp \in InputVecs, tgt \in TargetVecs :
        Step /\ BackpropTraining(rate, inp, tgt)

DoGradientTrain ==
    \E rate \in Rates, inp \in InputVecs, tgt \in TargetVecs :
        Step /\ GradientTraining(rate, inp, tgt)

Next ==
    \/ DoSetCoefficients
    \/ DoSetBiases
    \/ DoCompute
    \/ DoPerceptronTrain
    \/ DoBackpropTrain
    \/ DoGradientTrain

Spec == Init /\ [][Next]_vars

(* ------------- the test perceptron_rule, as a state machine ------------ *)

TestInputs == 4

TestOutputs == 2

Reps == 3

\* PerceptronRule { rate: 0.5 }
TestRate == Half

\* The two examples of the test: ([1,1,1,1] -> [0,0]), ([1,-1,1,-1] -> [1,1]).
ExampleInput(e) == Prefix(IF e = 1 THEN "ones" ELSE "alt", TestInputs)

ExampleTarget(e) == Prefix(IF e = 1 THEN "zeros" ELSE "ones", TestOutputs)

\* FeedforwardLayer::new(4, 2, step()); the step at 0 is either value.
TestInit ==
    \E act \in {step, stepz} :
        Constructed(New(TestInputs, TestOutputs, act),
                    [Blank("new") EXCEPT !.inputs0 = TestInputs,
                                         !.outputs = TestOutputs])

\* One supervised_train call of the loop, on either example.
TestTrain ==
    \E e \in 1..2 :
        /\ Len(hist) < 2 * Reps
        /\ PerceptronTraining(TestRate, ExampleInput(e), ExampleTarget(e))
        /\ hist' = Append(hist, e)
        /\ UNCHANGED calls

TestCompute ==
    \E e \in 1..2 :
        /\ Computing(ExampleInput(e))
        /\ UNCHANGED <<calls, hist>>

TestNext == TestTrain \/ TestCompute

SpecTest == TestInit /\ [][TestNext]_vars

\* The calls of the test, in its order: both examples, Reps times.
RECURSIVE Script(_)
Script(n) == IF n = 0 THEN << >> ELSE Script(n - 1) \o <<1, 2>>

(* ------------------------------ claims -------------------------------- *)

Valid(cf, bs, ins) == Len(cf) = ins * Len(bs)

\* C1: whatever the length of its input, compute returns on every layer
\* with input_size*output_size weights, and the sequence it returns, on any
\* layer, has exactly output_size() components.
C1_ComputeLength ==
    /\ (last.op = "compute" /\ Valid(coeffs, biases, inputs)) => last.ok
    /\ (last.op = "compute" /\ last.ok) =>
          Len(last.result) = output_size(biases)

\* C1 witness: compute returned on an input shorter than input_size().
C1_Witness ==
    /\ last.op = "compute" /\ last.ok
    /\ Valid(coeffs, biases, inputs)
    /\ Len(last.input) < inputs /\ Len(last.input) > 0
    /\ output_size(biases) = 2

\* C3: after the test's six delta-rule calls (both examples, alternating,
\* three times, rate 0.5) on the zero 4x2 step layer, compute reproduces
\* both targets: [1,1,1,1] gives [0,0] and [1,-1,1,-1] gives [1,1].
C3_PerceptronConverges ==
    hist = Script(Reps) =>
        /\ Compute(coeffs, biases, inputs, activation, ExampleInput(1)).val
               = <<Zero, Zero>>
        /\ Compute(coeffs, biases, inputs, activation, ExampleInput(2)).val
               = <<One, One>>

\* C3 witness: the six calls were made and compute was then called on the
\* second example, returning its target.
C3_Witness ==
    /\ hist = Script(Reps)
    /\ last.op = "compute" /\ last.ok
    /\ last.input = ExampleInput(2)
    /\ last.result = <<One, One>>

(* Reference definitions, written from the formulas of the claims. *)

RECURSIVE SumSeq(_)
SumSeq(v) == IF v = << >> THEN Zero ELSE Add(Head(v), SumSeq(Tail(v)))

\* biases[j] + sum over i < min(input_size, input.length) of W[j*ins+i]*x[i]
RefRaw(cf, bs, ins, inp, j) ==
    Add(At(bs, j),
        SumSeq([i \in 1..Used(ins, inp) |->
                   Mul(At(cf, j * ins + (i - 1)), At(inp, i - 1))]))

RefTarget(tgt, j) == IF j < Len(tgt) THEN At(tgt, j) ELSE Zero

PadZeros(inp, n) == [i \in 1..n |-> IF i <= Len(inp) THEN inp[i] ELSE Zero]

CallOps == {"compute", "perceptron_train", "backprop_train", "gradient_train"}

\* The test compute: new_from(4, 2, identity(), || 0.5) on [1, 1, 1, 1].
TestComputeResult ==
    LET l == NewFrom(4, 2, identity, [kind |-> "half", acc |-> 0])
    IN  Compute(l.coeffs, l.biases, l.inputs, l.activation, Prefix("ones", 4))

\* C2: on a layer with input_size*output_size weights, compute returns, for
\* every output j, value_fn(biases[j] + sum over i < min(input_size,
\* input.length) of weights[j*input_size+i]*input[i]); the same as for the
\* input padded with zeros to input_size, and the same as for its first
\* input_size components; all-0.5 weights and biases with four inputs 1.0
\* give 2.5 on both outputs under the identity.
C2_ComputeFormula ==
    /\ TestComputeResult = [ok |-> TRUE, val |-> <<Q(5, 2), Q(5, 2)>>]
    /\ (last.op = "compute" /\ Valid(coeffs, biases, inputs)) =>
          /\ last.ok
          /\ Len(last.result) = Len(biases)
          /\ \A j \in 0..(Len(biases) - 1) :
                At(last.result, j) =
                    ApplyFn(activation.value,
                            RefRaw(coeffs, biases, inputs, last.input, j))
          /\ Len(last.input) < inputs =>
                Compute(coeffs, biases, inputs, activation,
                        PadZeros(last.input, inputs)).val = last.result
          /\ Len(last.input) > inputs =>
                Compute(coeffs, biases, inputs, activation,
                        SubSeq(last.input, 1, inputs)).val = last.result

\* C2 witness: compute returned on a 2-input layer given one input, with a
\* non-zero weight on the missing input and a non-zero weight on the given.
C2_Witness ==
    /\ last.op = "compute" /\ last.ok /\ Valid(coeffs, biases, inputs)
    /\ inputs = 2 /\ Len(last.input) = 1 /\ Len(biases) = 2
    /\ \A k \in 0..3 : At(coeffs, k) # Zero
    /\ At(last.result, 0) # At(biases, 0)

\* C4: on a layer with input_size*output_size weights, every compute and
\* every training call completes without an out-of-range access, whatever
\* the lengths of its input and target, and leaves such a layer.
C4_NeverFails ==
    (last.op \in CallOps /\ Valid(last.coeffs0, last.biases0, last.inputs0)) =>
        /\ last.ok
        /\ Valid(coeffs, biases, inputs)
        /\ Len(biases) = Len(last.biases0)

\* C4 witness: a backprop_train call completed on a 1-input, 2-output layer
\* with an input too long and a target too short.
C4_Witness ==
    /\ last.op = "backprop_train" /\ last.ok
    /\ Valid(last.coeffs0, last.biases0, last.inputs0)
    /\ last.inputs0 = 1 /\ Len(last.biases0) = 2
    /\ Len(last.input) = 2 /\ Len(last.target) = 1

\* C5: in every reachable state the weights have length
\* input_size() * output_size() and the biases have length output_size().
C5_LengthInvariant ==
    /\ Len(coeffs) = inputs * output_size(biases)
    /\ Len(biases) = output_size(biases)

\* C6: backprop_train returns a vector as long as its input: for
\* i < min(input_size, input.length), input[i] minus the sum over j of
\* W_before[i + j*input_size] * derivative_fn(raw[j]), with the weights and
\* sums as on entry; for the other i, input[i].
C6_ReturnedFromOldWeights ==
    (last.op = "backprop_train" /\ last.ok) =>
        /\ Len(last.result) = Len(last.input)
        /\ \A i \in 0..(Len(last.input) - 1) :
              At(last.result, i) =
                  IF i < Used(last.inputs0, last.input)
                  THEN Sub(At(last.input, i),
                           SumSeq([j \in 1..Len(last.biases0) |->
                               Mul(At(last.coeffs0, i + (j - 1) * last.inputs0),
                                   ApplyFn(activation.derivative,
                                           RefRaw(last.coeffs0, last.biases0,
                                                  last.inputs0, last.input,
                                                  j - 1)))]))
                  ELSE At(last.input, i)

\* C6 witness: backprop_train returned after changing a weight it read, on
\* an input longer than input_size.
C6_Witness ==
    /\ last.op = "backprop_train" /\ last.ok
    /\ Valid(last.coeffs0, last.biases0, last.inputs0)
    /\ last.inputs0 = 1 /\ Len(last.input) = 2 /\ Len(last.biases0) = 2
    /\ At(coeffs, 0) # At(last.coeffs0, 0)
    /\ At(last.result, 0) # At(last.input, 0)

\* The output and the input that position k of the weights connects.
RefOutput(k) == IF last.inputs0 > 0 THEN k \div last.inputs0 ELSE 0

RefInput(k) == IF last.inputs0 > 0 THEN k % last.inputs0 ELSE 0

\* Whether the last call's input gives the input of the weight at k.
RefTouched(k) ==
    /\ last.inputs0 > 0
    /\ RefOutput(k) < Len(last.biases0)
    /\ RefInput(k) < Used(last.inputs0, last.input)

\* raw[j], deltas[j], out[j] of the layer on entry to the last call.
EntryRaw(j) ==
    RefRaw(last.coeffs0, last.biases0, last.inputs0, last.input, j)

EntryDelta(j) == ApplyFn(activation.derivative, EntryRaw(j))

EntryOut(j) == ApplyFn(activation.value, EntryRaw(j))

EntryErr(j) == Sub(EntryOut(j), RefTarget(last.target, j))

\* C7: a gradient-descent call (backprop_train, or supervised_train with
\* GradientDescent) turns every weight whose input is given into
\* W - rate*input[i]*deltas[j]*(out[j] - target[j]) and every bias into
\* b - rate*deltas[j]*(out[j] - target[j]), raw, deltas and out taken on
\* entry, a missing target read as zero; no other weight changes.
C7_GradientUpdate ==
    (last.op \in {"backprop_train", "gradient_train"} /\ last.ok) =>
        LET corr(i, j) == Mul(Mul(Mul(last.rate, At(last.input, i)),
                                  EntryDelta(j)), EntryErr(j))
        IN  /\ Len(coeffs) = Len(last.coeffs0)
            /\ Len(biases) = Len(last.biases0)
            /\ \A k \in 0..(Len(coeffs) - 1) :
                  At(coeffs, k) =
                      IF RefTouched(k)
                      THEN Sub(At(last.coeffs0, k),
                               corr(RefInput(k), RefOutput(k)))
                      ELSE At(last.coeffs0, k)
            /\ \A j \in 0..(Len(biases) - 1) :
                  At(biases, j) =
                      Sub(At(last.biases0, j),
                          Mul(Mul(last.rate, EntryDelta(j)), EntryErr(j)))

\* C7 witness: supervised_train with GradientDescent changed a weight and a
\* bias of a 2-input layer given one input and a target too short, with an
\* activation whose derivative is not 1.
C7_Witness ==
    /\ last.op = "gradient_train" /\ last.ok
    /\ Valid(last.coeffs0, last.biases0, last.inputs0)
    /\ last.inputs0 = 2 /\ Len(last.biases0) = 2
    /\ Len(last.input) = 1 /\ Len(last.target) = 1
    /\ activation = skewed
    /\ At(coeffs, 2) # At(last.coeffs0, 2)
    /\ At(biases, 1) # At(last.biases0, 1)
    /\ EntryDelta(1) # One

\* C8: a delta-rule call turns every weight whose input is given into
\* W - rate*diff[j]*input[i] and every bias into b - rate*diff[j], where
\* diff[j] = compute(input)[j] - target[j] on entry, a missing target read
\* as zero; no other weight changes; the derivative plays no part.
C8_DeltaUpdate ==
    (last.op = "perceptron_train" /\ last.ok) =>
        LET corr(i, j) == Mul(Mul(last.rate, EntryErr(j)), At(last.input, i))
        IN  /\ Len(coeffs) = Len(last.coeffs0)
            /\ Len(biases) = Len(last.biases0)
            /\ \A k \in 0..(Len(coeffs) - 1) :
                  At(coeffs, k) =
                      IF RefTouched(k)
                      THEN Sub(At(last.coeffs0, k),
                               corr(RefInput(k), RefOutput(k)))
                      ELSE At(last.coeffs0, k)
            /\ \A j \in 0..(Len(biases) - 1) :
                  At(biases, j) =
                      Sub(At(last.biases0, j), Mul(last.rate, EntryErr(j)))

\* C8 witness: a delta-rule call changed a weight and a bias of a 2-input
\* layer given one input and a target too short, with an activation whose
\* derivative is not 1 there.
C8_Witness ==
    /\ last.op = "perceptron_train" /\ last.ok
    /\ Valid(last.coeffs0, last.biases0, last.inputs0)
    /\ last.inputs0 = 2 /\ Len(last.biases0) = 2
    /\ Len(last.input) = 1 /\ Len(last.target) = 1
    /\ activation = skewed
    /\ At(coeffs, 2) # At(last.coeffs0, 2)
    /\ At(biases, 1) # At(last.biases0, 1)
    /\ ApplyFn(activation.derivative, EntryOut(1)) # One

\* C9: new_from invokes its generator input_size*output_size + output_size
\* times; invocation k (from 0) fills weights[k] for
\* k < input_size*output_size and biases[k - input_size*output_size] after.
C9_GeneratorOrder ==
    last.op = "new_from" =>
        LET n == last.inputs0 * last.outputs
            nth(k) == GenValue(last.gen0.kind, last.gen0.acc + k + 1)
        IN  /\ last.gen1.acc - last.gen0.acc = n + last.outputs
            /\ Len(coeffs) = n
            /\ Len(biases) = last.outputs
            /\ \A k \in 0..(n - 1) : At(coeffs, k) = nth(k)
            /\ \A k \in 0..(last.outputs - 1) : At(biases, k) = nth(n + k)

\* C9 witness: a 2x2 layer built from the counting generator of the tests,
\* whose successive values differ.
C9_Witness ==
    /\ last.op = "new_from" /\ last.gen0.kind = "random"
    /\ last.inputs0 = 2 /\ last.outputs = 2
    /\ At(coeffs, 0) # At(coeffs, 1)
    /\ At(biases, 0) # At(coeffs, 3)

\* C10: a delta-rule call on an input whose outputs already equal the
\* target (a missing target read as zero) changes no weight and no bias.
C10_DeltaFixedPoint ==
    (/\ last.op = "perceptron_train" /\ last.ok
     /\ LET out == Compute(last.coeffs0, last.biases0, last.inputs0,
                           activation, last.input).val
        IN  \A j \in 0..(Len(last.biases0) - 1) :
                At(out, j) = RefTarget(last.target, j))
        => (coeffs = last.coeffs0 /\ biases = last.biases0)

\* C10 witness: a delta-rule call with rate 0.5 and a non-zero input on a
\* layer with a non-zero weight whose output already equals its target 1.
C10_Witness ==
    /\ last.op = "perceptron_train" /\ last.ok
    /\ Valid(last.coeffs0, last.biases0, last.inputs0)
    /\ last.inputs0 >= 1 /\ Len(last.biases0) = 1
    /\ Len(last.input) >= 1 /\ Len(last.target) = 1
    /\ At(last.coeffs0, 0) # Zero
    /\ Compute(last.coeffs0, last.biases0, last.inputs0, activation,
               last.input).val = <<One>>
    /\ last.target = <<One>>
    /\ coeffs = last.coeffs0 /\ biases = last.biases0

====
